---- MODULE Spec2Model ----
(***************************************************************************)
(* A model of the folder index (service.FileManager), the storage          *)
(* directory it reads, the consumer task that applies watcher events to    *)
(* it (telegram_bot.bot.process_watchdog_queue) and the polling watcher    *)
(* (folder_watcher.run_watcher).                                           *)
(*                                                                         *)
(* Strings that the program normalizes (folder names, descriptor fields,   *)
(* queries) are sequences of one-character strings, so that slugify is     *)
(* computed character by character.                                        *)
(***************************************************************************)
EXTENDS Integers, Sequences, FiniteSets, TLC

VARIABLES
    storage,        \* STORAGE_DIR on disk: folder name -> [exists, files, csv]
    file_manager,   \* service.file_manager: the FileManager object's attributes
    pc,             \* position of the bot process: FileManager.__init__ steps, then "ready"
    listing,        \* the list service.py:65 enumerates
    num,            \* the loop counter of service.py:65
    consumer,       \* the process_watchdog_queue task: "running" or "dead"
    ret,            \* what the last read operation of the index returned
    created,        \* history: every primary entry ever created, in order
    applied,        \* history: the events the consumer applied, in order
    disk_ops,       \* history: number of changes made to the storage directory
    listed,         \* history: what the three os.listdir calls of __init__ saw
    root_access,    \* STORAGE_DIR itself: "ok", "gone", "denied" (unreadable) or "notdir"
    w_pc,           \* position of the watcher process in run_watcher
    include_hidden, \* run_watcher's argument
    stop_event,     \* run_watcher's argument: "absent", "clear" or "set"
    terminate_requested,    \* folder_watcher._terminate_requested
    previous,       \* run_watcher's local
    current,        \* run_watcher's local
    to_send,        \* the payloads of the current tick not yet put
    out_queue,      \* the multiprocessing.Queue between the two processes
    queue_open,     \* FALSE once the queue is closed or its pipe broken
    ticks,          \* history: number of scans made by the polling loop
    emitted,        \* history: every payload _safe_put was called with
    preexisting,    \* history: the children on disk at the seeding scan
    tick_events,    \* history: the payloads _safe_put was called with in this tick
    scan_errors,    \* history: for each scan so far, whether os.scandir failed
    poll_interval,  \* run_watcher's argument and local, in seconds
    waited,         \* history: the duration of every wait between ticks, in order
    clamped,        \* history: folder_watcher.py:150 replaced a negative poll_interval
    seeded,         \* history: what the seeding scan of folder_watcher.py:144 returned
    cash,           \* users_database.cash: user id -> flag (NoFlag: no entry)
    fsm_state,      \* the FSM state of each user's private chat
    fsm_attempts,   \* "attempts" in the FSM data of each user's private chat
    in_flight,      \* the handlers of each user's updates suspended in an await
    handled,        \* history: the coroutine the dispatcher ran last, and for whom
    db_rows,        \* the rows of table users in users_db.db: user id -> flag
    sent            \* history: what of the index the last coroutine sent its user

botVars == <<file_manager, pc, listing, num, consumer, created, applied, listed>>

watcherVars == <<w_pc, include_hidden, stop_event, terminate_requested, previous,
                 current, to_send, out_queue, queue_open, ticks, emitted, preexisting,
                 tick_events, scan_errors, poll_interval, waited, clamped, seeded>>

authVars == <<cash, fsm_state, fsm_attempts, in_flight, handled, db_rows, sent>>

vars == <<storage, disk_ops, root_access, ret, botVars, watcherVars, authVars>>

-----------------------------------------------------------------------------
(* Bounds of the model *)

\* changes of the storage directory plus events applied by the consumer
MaxOps == 4
\* scans made by the watcher's polling loop
MaxTicks == 2

-----------------------------------------------------------------------------
(* Strings *)

None == "None"
NoExc == "none"

RECURSIVE SeqToSet(_)
SeqToSet(s) == IF s = <<>> THEN {} ELSE {Head(s)} \cup SeqToSet(Tail(s))

\* all orderings of a finite set, as sequences
RECURSIVE Perms(_)
Perms(S) ==
    IF S = {} THEN {<<>>}
    ELSE UNION {{<<x>> \o p : p \in Perms(S \ {x})} : x \in S}

Lower(c) == CASE c = "A" -> "a" [] c = "B" -> "b" [] OTHER -> c

IsAlnum(c) == c \in {"a", "b", "1"}

\* slugify(): lower-case, every run of other characters becomes one "-",
\* no "-" at either end
RECURSIVE SlugifyFrom(_, _)
SlugifyFrom(acc, s) ==
    IF s = <<>>
    THEN IF acc # <<>> /\ acc[Len(acc)] = "-" THEN SubSeq(acc, 1, Len(acc) - 1) ELSE acc
    ELSE LET c == Lower(Head(s)) IN
         IF IsAlnum(c) THEN SlugifyFrom(Append(acc, c), Tail(s))
         ELSE IF acc = <<>> \/ acc[Len(acc)] = "-" THEN SlugifyFrom(acc, Tail(s))
         ELSE SlugifyFrom(Append(acc, "-"), Tail(s))

Slugify(s) == SlugifyFrom(<<>>, s)

IsNotHyphen(c) == c # "-"

\* FileManager.__normalize_string
NormalizeString(string) == SelectSeq(Slugify(string), IsNotHyphen)

\* Python's "a in b" on strings
IsSubstring(a, b) ==
    \E i \in 0..(Len(b) - Len(a)) : SubSeq(b, i + 1, i + Len(a)) = a

-----------------------------------------------------------------------------
(* The storage directory *)

FolderNames == {<<"A", "_", "b">>, <<"B", "1">>}

FileNames == {"a.jpg"}

InfoCsv == "info.csv"

NoFields == [order |-> <<>>, phone |-> <<>>, address |-> <<>>]

\* info.csv: absent, unreadable (open or decoding fails), or a header and a row
CsvMissing == [st |-> "missing", fields |-> NoFields]
CsvBad == [st |-> "bad", fields |-> NoFields]
CsvRow(f) == [st |-> "ok", fields |-> f]

\* the rows written to info.csv: the columns the index reads, some left empty
InitialRow == [order |-> <<"B", "-", "1">>, phone |-> <<>>, address |-> <<"a">>]
LaterRow == [order |-> <<"b", "1">>, phone |-> <<"-">>, address |-> <<>>]

CsvWritable == {CsvBad, CsvRow(LaterRow)}

Absent == [exists |-> FALSE, files |-> {}, csv |-> CsvMissing]
EmptyFolder == [exists |-> TRUE, files |-> {}, csv |-> CsvMissing]

\* a folder as GUI/main.py create_result leaves it
InitialFolder(name) ==
    CASE name = <<"A", "_", "b">> ->
            [exists |-> TRUE, files |-> FileNames,
             csv |-> CsvRow(InitialRow)]
      [] OTHER -> [exists |-> TRUE, files |-> FileNames, csv |-> CsvMissing]

\* a child the watcher skips unless include_hidden
HiddenName == <<".", "b">>

AllNames == FolderNames \cup {HiddenName}

Root(st) == {n \in AllNames : st[n].exists}

\* os.listdir(STORAGE_DIR): the children, in an order the OS picks
ListDir(st) == Perms(Root(st))

\* os.listdir(folder): the names of the entries of an existing folder
FolderEntries(f) == f.files \cup (IF f.csv.st = "missing" THEN {} ELSE {InfoCsv})

-----------------------------------------------------------------------------
(* service.FileManager *)

\* folders_by_id is a Python dict: a sequence of entries in insertion order,
\* each carrying its key
\* a variant of the primary entry whose slug keeps slugify's hyphens
FolderDataHyphens(name, id) ==
    [key |-> id, folder_name |-> name, slug |-> Slugify(name), folder_id |-> id]

FolderData(name, id) ==
    [key |-> id, folder_name |-> name, slug |-> NormalizeString(name), folder_id |-> id]

FolderDataByKey(name, id) == [folder_name |-> name, folder_id |-> id]

DictKeys(d) == {d[i].key : i \in 1..Len(d)}

DictIndex(d, k) == CHOOSE i \in 1..Len(d) : d[i].key = k

\* d[k] = v: an existing key keeps its position, a new key goes last
DictSet(d, k, v) ==
    IF k \in DictKeys(d) THEN [d EXCEPT ![DictIndex(d, k)] = v] ELSE Append(d, v)

\* del d[k] for the entry at position i
DictDel(d, i) == SubSeq(d, 1, i - 1) \o SubSeq(d, i + 1, Len(d))

EmptyFileManager ==
    [folders_by_id |-> <<>>,
     folders_by_order |-> [k \in {} |-> <<>>],
     folders_by_phone |-> [k \in {} |-> <<>>],
     folders_by_address |-> [k \in {} |-> <<>>],
     total_folders |-> 0]

\* FileManager.__get_full_path_folder_by_id: None (found = FALSE) or the path
\* STORAGE_DIR/<folder_name>, represented by the folder name
GetFullPathFolderById(fm, folder_id) ==
    IF folder_id \in DictKeys(fm.folders_by_id)
    THEN [found |-> TRUE,
          folder_name |-> fm.folders_by_id[DictIndex(fm.folders_by_id, folder_id)].folder_name]
    ELSE [found |-> FALSE, folder_name |-> <<>>]

Returned(v, info) == [exc |-> NoExc, val |-> v, info |-> info]
Raised(e) == [exc |-> e, val |-> None, info |-> NoFields]

\* a variant of __read_csv that returns what it had read when decoding failed
ReadCsvPartial(csv) ==
    IF csv.st = "ok" THEN Returned("dict", csv.fields) ELSE Returned("dict", LaterRow)

\* FileManager.__read_csv: None when opening or decoding fails, else the row
ReadCsv(csv) ==
    IF csv.st = "ok" THEN Returned("dict", csv.fields) ELSE Returned(None, NoFields)

\* FileManager.get_data_from_info_file.  os.listdir(None) lists the working
\* directory of the process (cwd_empty tells whether it has entries);
\* os.path.join(None, 'info.csv') raises TypeError; os.listdir of a folder
\* that is not on disk raises FileNotFoundError.
GetDataFromInfoFile(fm, st, folder_id, cwd_empty) ==
    LET path == GetFullPathFolderById(fm, folder_id) IN
    IF ~path.found
    THEN IF cwd_empty THEN Returned(None, NoFields) ELSE Raised("TypeError")
    ELSE LET folder == st[path.folder_name] IN
         IF ~folder.exists THEN Raised("FileNotFoundError")
         ELSE IF FolderEntries(folder) = {} THEN Returned(None, NoFields)
         ELSE IF folder.csv.st # "missing" THEN ReadCsv(folder.csv)
         ELSE Returned(None, NoFields)

\* a variant that forgets setdefault: index[key] = [ref]
BucketOverwrite(index, key, ref) ==
    IF key \in DOMAIN index
    THEN [index EXCEPT ![key] = <<ref>>]
    ELSE index @@ (key :> <<ref>>)

\* a variant that puts the new reference first
BucketPrepend(index, key, ref) ==
    IF key \in DOMAIN index
    THEN [index EXCEPT ![key] = <<ref>> \o @]
    ELSE index @@ (key :> <<ref>>)

\* values = index.setdefault(key, []); values.append(ref); index[key] = values
BucketAppend(index, key, ref) ==
    IF key \in DOMAIN index
    THEN [index EXCEPT ![key] = Append(@, ref)]
    ELSE index @@ (key :> <<ref>>)

\* FileManager.__index_folder_metadata: [exc, fm]
IndexFolderMetadata(fm, st, folder_id, folder_name, cwd_empty) ==
    LET got == GetDataFromInfoFile(fm, st, folder_id, cwd_empty)
        ref == FolderDataByKey(folder_name, folder_id)
        order == got.info.order
        phone_number == got.info.phone
        address == got.info.address
        fm1 == IF order # <<>>
               THEN [fm EXCEPT !.folders_by_order =
                                   BucketAppend(@, NormalizeString(order), ref)]
               ELSE fm
        fm2 == IF phone_number # <<>>
               THEN [fm1 EXCEPT !.folders_by_phone =
                                   BucketAppend(@, NormalizeString(phone_number), ref)]
               ELSE fm1
        fm3 == IF address # <<>>
               THEN [fm2 EXCEPT !.folders_by_address =
                                   BucketAppend(@, NormalizeString(address), ref)]
               ELSE fm2
    IN  IF got.exc # NoExc THEN [exc |-> got.exc, fm |-> fm]
        ELSE IF got.val = None THEN [exc |-> NoExc, fm |-> fm]
        ELSE [exc |-> NoExc, fm |-> fm3]

\* a variant that drops every entry with this name
RemoveFolderAll(fm, folder_name) ==
    [fm EXCEPT !.folders_by_id =
        SelectSeq(@, LAMBDA e : e.folder_name # folder_name)]

\* FileManager.remove_folder: the first entry, in dict order, with this name
RemoveFolder(fm, folder_name) ==
    LET hits == {i \in 1..Len(fm.folders_by_id) :
                    fm.folders_by_id[i].folder_name = folder_name}
    IN  IF hits = {} THEN fm
        ELSE LET first == CHOOSE i \in hits : \A j \in hits : i <= j
             IN  [fm EXCEPT !.folders_by_id = DictDel(@, first)]

\* a variant that increments total_folders before it uses it
AddFolderIncrementFirst(fm, st, folder_name, cwd_empty) ==
    LET id == fm.total_folders + 1
        fm1 == [fm EXCEPT !.folders_by_id = DictSet(@, id, FolderData(folder_name, id)),
                          !.total_folders = id]
        r == IndexFolderMetadata(fm1, st, id, folder_name, cwd_empty)
    IN  [exc |-> r.exc, fm |-> r.fm, folder_id |-> id]

\* FileManager.add_folder: [exc, fm, folder_id], folder_id being the key
\* written.  total_folders is incremented only when __index_folder_metadata
\* returns; when it raises, the entry already written at key total_folders
\* stays.
AddFolder(fm, st, folder_name, cwd_empty) ==
    LET id == fm.total_folders
        fm1 == [fm EXCEPT !.folders_by_id = DictSet(@, id, FolderData(folder_name, id))]
        r == IndexFolderMetadata(fm1, st, id, folder_name, cwd_empty)
    IN  IF r.exc # NoExc THEN [exc |-> r.exc, fm |-> fm1, folder_id |-> id]
        ELSE [exc |-> NoExc, fm |-> [r.fm EXCEPT !.total_folders = @ + 1],
              folder_id |-> id]

\* FileManager.search_folders_by_partial, over the entries from position i on
RECURSIVE PartialFrom(_, _, _)
PartialFrom(d, query, i) ==
    IF i > Len(d) THEN <<>>
    ELSE IF IsSubstring(query, d[i].slug)
         THEN <<FolderDataByKey(d[i].folder_name, d[i].folder_id)>>
              \o PartialFrom(d, query, i + 1)
         ELSE PartialFrom(d, query, i + 1)

\* a variant that compares the query as typed
SearchFoldersByPartialRaw(fm, query) ==
    PartialFrom(fm.folders_by_id, query, 1)

SearchFoldersByPartial(fm, query) ==
    PartialFrom(fm.folders_by_id, NormalizeString(query), 1)

SearchTypes == {"by_contract", "by_phone", "by_address"}

\* a variant whose index_data starts as folders_by_order instead of {}
SearchFoldersByKeyDefaultOrder(fm, query, search_type) ==
    LET q == NormalizeString(query)
        index_data == CASE search_type = "by_phone" -> fm.folders_by_phone
                        [] search_type = "by_address" -> fm.folders_by_address
                        [] OTHER -> fm.folders_by_order
    IN  IF q \in DOMAIN index_data /\ index_data[q] # <<>> THEN index_data[q] ELSE <<>>

\* FileManager.search_folders_by_key
SearchFoldersByKey(fm, query, search_type) ==
    LET q == NormalizeString(query)
        index_data == CASE search_type = "by_contract" -> fm.folders_by_order
                        [] search_type = "by_phone" -> fm.folders_by_phone
                        [] search_type = "by_address" -> fm.folders_by_address
                        [] OTHER -> [k \in {} |-> <<>>]
    IN  IF q \in DOMAIN index_data /\ index_data[q] # <<>> THEN index_data[q] ELSE <<>>

\* FileManager.get_files_from_folder: [exc, val, files].  With no path,
\* os.listdir(None) lists the working directory and os.path.join(None, f)
\* raises the TypeError the method catches.
FilesReturned(v, files) == [exc |-> NoExc, val |-> v, files |-> files]

GetFilesFromFolder(fm, st, folder_id, cwd_empty) ==
    LET path == GetFullPathFolderById(fm, folder_id) IN
    IF ~path.found
    THEN IF cwd_empty THEN {FilesReturned(None, <<>>)}  \* "if not os.listdir(None)"
         ELSE {FilesReturned(None, <<>>)}               \* "except TypeError"
    ELSE LET folder == st[path.folder_name] IN
         IF ~folder.exists THEN {[exc |-> "FileNotFoundError", val |-> None, files |-> <<>>]}
         ELSE IF FolderEntries(folder) = {} THEN {FilesReturned(None, <<>>)}
         ELSE {FilesReturned("list", [i \in 1..Len(p) |-> <<path.folder_name, p[i]>>]) :
                  p \in Perms(FolderEntries(folder))}

-----------------------------------------------------------------------------
(* State *)

NoRet ==
    [op |-> "none", query |-> <<>>, search_type |-> "", folder_id |-> -1,
     exc |-> NoExc, val |-> None, list |-> <<>>, files |-> <<>>, info |-> NoFields]

Queries == {<<"-">>, <<"A", "B">>, <<"b", "-", "1">>}

\* the states of handler_search.SearchState a text message can arrive in
SearchStates == SearchTypes \cup {"partial"}

FolderIds == 0..(Cardinality(FolderNames) + 1)

\* the bot process before service is imported
\* telegram ids of the users who write to the bot: the handlers and the
\* middleware read and write only what is kept under the id of the update's
\* user, so one user shows what they do
Users == {1}

\* users_database.cash.get(user_id) is None
NoFlag == 0

\* handler_login.py:27
MAX_ATTEMPTS_PASSPHRASE == 5

\* database_crud.py:50 with a new users_db.db, and aiogram's MemoryStorage
InitUsers ==
    /\ cash = [u \in Users |-> NoFlag]
    /\ fsm_state = [u \in Users |-> None]
    /\ fsm_attempts = [u \in Users |-> 0]
    /\ in_flight = [u \in Users |-> {}]
    /\ handled = [user |-> 0, handler |-> None]
    /\ db_rows = [u \in Users |-> NoFlag]
    /\ sent = "none"

InitBot ==
    /\ InitUsers
    /\ file_manager = EmptyFileManager
    /\ pc = "L48"
    /\ listing = <<>>
    /\ num = 0
    /\ consumer = "running"
    /\ ret = NoRet
    /\ created = <<>>
    /\ applied = <<>>
    /\ disk_ops = 0
    /\ listed = <<>>

\* the watcher process when run_watcher is called
\* folder_watcher.py:98, poll_interval: float = 1.0
DefaultPollInterval == 1

\* values of the poll_interval argument, in seconds
PollIntervals == {-1, 0, DefaultPollInterval}

InitWatcher ==
    /\ w_pc = "L126"
    /\ terminate_requested = FALSE
    /\ previous = {}
    /\ current = {}
    /\ to_send = <<>>
    /\ out_queue = <<>>
    /\ queue_open = TRUE
    /\ ticks = 0
    /\ emitted = <<>>
    /\ preexisting = {}
    /\ tick_events = <<>>
    /\ scan_errors = <<>>
    /\ waited = <<>>
    /\ clamped = FALSE
    /\ seeded = {}

\* the index seen from its callers: the storage directory stays readable and
\* the watcher is not running
Init ==
    /\ storage \in {[n \in AllNames |-> IF n \in R THEN InitialFolder(n) ELSE Absent] :
                       R \in SUBSET FolderNames}
    /\ root_access = "ok"
    /\ InitBot
    /\ InitWatcher
    /\ include_hidden = FALSE
    /\ stop_event = "absent"
    /\ poll_interval = DefaultPollInterval

-----------------------------------------------------------------------------
(* The storage directory changes under the program: GUI/main.py creates a   *)
(* folder, copies files into it and writes info.csv; folders are deleted by *)
(* hand.                                                                    *)

StorageStep(st) ==
    /\ disk_ops + Len(applied) < MaxOps
    /\ storage' = st
    /\ disk_ops' = disk_ops + 1
    /\ ret' = NoRet
    /\ UNCHANGED <<root_access, botVars, watcherVars, authVars>>

MakeDirs ==
    \E n \in FolderNames :
        /\ ~storage[n].exists
        /\ StorageStep([storage EXCEPT ![n] = EmptyFolder])

CopyFile ==
    \E n \in FolderNames, f \in FileNames :
        /\ storage[n].exists
        /\ f \notin storage[n].files
        /\ StorageStep([storage EXCEPT ![n].files = @ \cup {f}])

WriteCsv ==
    \E n \in FolderNames, c \in CsvWritable :
        /\ storage[n].exists
        /\ storage[n].csv # c
        /\ StorageStep([storage EXCEPT ![n].csv = c])

DeleteFolder ==
    \E n \in AllNames :
        /\ storage[n].exists
        /\ StorageStep([storage EXCEPT ![n] = Absent])

-----------------------------------------------------------------------------
(* FileManager.__init__, run when the bot process imports service *)

Created(id, name, st) == [folder_id |-> id, folder_name |-> name, folder |-> st[name]]

\* service.py:48
InitCount ==
    /\ pc = "L48"
    /\ \E l \in ListDir(storage) :
          /\ file_manager' = [file_manager EXCEPT !.total_folders = Len(l)]
          /\ listed' = Append(listed, SeqToSet(l))
    /\ pc' = "L63"
    /\ UNCHANGED <<storage, listing, num, consumer, ret, created, applied, disk_ops>>
    /\ UNCHANGED <<root_access, watcherVars, authVars>>

\* service.py:63
InitCheckEmpty ==
    /\ pc = "L63"
    /\ \E l \in ListDir(storage) :
          /\ pc' = IF l = <<>> THEN "ready" ELSE "L65"
          /\ listed' = Append(listed, SeqToSet(l))
    /\ UNCHANGED <<storage, file_manager, listing, num, consumer, ret, created,
                   applied, disk_ops>>
    /\ UNCHANGED <<root_access, watcherVars, authVars>>

\* service.py:65, the call of os.listdir
InitList ==
    /\ pc = "L65"
    /\ \E l \in ListDir(storage) :
          /\ listing' = l
          /\ listed' = Append(listed, SeqToSet(l))
    /\ num' = 0
    /\ pc' = "L66"
    /\ UNCHANGED <<storage, file_manager, consumer, ret, created, applied, disk_ops>>
    /\ UNCHANGED <<root_access, watcherVars, authVars>>

\* service.py:65-69, one iteration of the loop; an exception ends the import
InitLoop ==
    /\ pc = "L66"
    /\ IF num = Len(listing)
       THEN /\ pc' = "ready"
            /\ listing' = <<>>
            /\ num' = 0
            /\ UNCHANGED <<file_manager, created>>
       ELSE \E cwd_empty \in BOOLEAN :
            LET folder_name == listing[num + 1]
                fm1 == [file_manager EXCEPT !.folders_by_id =
                           DictSet(@, num, FolderData(folder_name, num))]
                r == IndexFolderMetadata(fm1, storage, num, folder_name, cwd_empty)
            IN  /\ file_manager' = r.fm
                /\ created' = Append(created, Created(num, folder_name, storage))
                /\ IF r.exc # NoExc
                   THEN pc' = "import_failed" /\ listing' = <<>> /\ num' = 0
                   ELSE pc' = "L66" /\ num' = num + 1 /\ UNCHANGED listing
    /\ UNCHANGED <<storage, consumer, ret, applied, disk_ops, listed>>
    /\ UNCHANGED <<root_access, watcherVars, authVars>>

-----------------------------------------------------------------------------
(* telegram_bot.bot.process_watchdog_queue: one event taken and applied.    *)
(* An exception raised by add_folder ends the task.                         *)

Applied(event, name, exc) == [event |-> event, folder_name |-> name, exc |-> exc]

ApplyNew(n) ==
    /\ pc = "ready"
    /\ consumer = "running"
    /\ \E cwd_empty \in BOOLEAN :
        LET r == AddFolder(file_manager, storage, n, cwd_empty) IN
        /\ file_manager' = r.fm
        /\ consumer' = IF r.exc # NoExc THEN "dead" ELSE "running"
        /\ applied' = Append(applied, Applied("new", n, r.exc))
        /\ created' = Append(created, Created(r.folder_id, n, storage))
    /\ ret' = NoRet

ApplyDel(n) ==
    /\ pc = "ready"
    /\ consumer = "running"
    /\ file_manager' = RemoveFolder(file_manager, n)
    /\ applied' = Append(applied, Applied("del", n, NoExc))
    /\ ret' = NoRet
    /\ UNCHANGED <<consumer, created>>

ConsumeNew ==
    /\ disk_ops + Len(applied) < MaxOps
    /\ \E n \in FolderNames : ApplyNew(n)
    /\ UNCHANGED <<storage, pc, listing, num, disk_ops, listed>>
    /\ UNCHANGED <<root_access, watcherVars, authVars>>

ConsumeDel ==
    /\ disk_ops + Len(applied) < MaxOps
    /\ \E n \in FolderNames : ApplyDel(n)
    /\ UNCHANGED <<storage, pc, listing, num, disk_ops, listed>>
    /\ UNCHANGED <<root_access, watcherVars, authVars>>

-----------------------------------------------------------------------------
(* The read operations, called by the bot's handlers *)

\* A read changes nothing but ret, so a second read in a row reaches no state
\* that a first one does not: ret holds one result until the next other step.
\* a variant of the read operations that counts the calls in total_folders
IndexAfterReadCounted(fm) == [fm EXCEPT !.total_folders = @ + 1]

\* the index after a read operation: service.py:120-178 and 226-259 assign
\* no attribute of self, and the handlers keep what they are given as it is
IndexAfterRead(fm) == fm

ReadStep(r) ==
    /\ pc = "ready"
    /\ ret.op = "none"
    /\ ret' = r
    /\ file_manager' = IndexAfterRead(file_manager)
    /\ UNCHANGED <<storage, disk_ops, root_access, watcherVars, authVars>>
    /\ UNCHANGED <<pc, listing, num, consumer, created, applied, listed>>

\* handler_search.search_by_partial_query
SearchPartial ==
    \E q \in Queries :
        ReadStep([NoRet EXCEPT !.op = "partial", !.query = q, !.val = "list",
                               !.list = SearchFoldersByPartial(file_manager, q)])

\* handler_search.search_by_key
SearchByKey ==
    \E q \in Queries, t \in SearchStates :
        ReadStep([NoRet EXCEPT !.op = "by_key", !.query = q, !.search_type = t,
                               !.val = "list",
                               !.list = SearchFoldersByKey(file_manager, q, t)])

\* callbacks.handle_press_btn -> prepare_images -> get_files_from_folder
GetFiles ==
    \E id \in FolderIds, cwd_empty \in BOOLEAN :
        \E r \in GetFilesFromFolder(file_manager, storage, id, cwd_empty) :
            ReadStep([NoRet EXCEPT !.op = "get_files", !.folder_id = id,
                                   !.exc = r.exc, !.val = r.val, !.files = r.files])

\* callbacks.handle_press_btn -> get_data_from_info_file
GetInfo ==
    \E id \in FolderIds, cwd_empty \in BOOLEAN :
        LET r == GetDataFromInfoFile(file_manager, storage, id, cwd_empty) IN
        ReadStep([NoRet EXCEPT !.op = "get_info", !.folder_id = id,
                               !.exc = r.exc, !.val = r.val, !.info = r.info])

-----------------------------------------------------------------------------

Next ==
    \/ MakeDirs \/ CopyFile \/ WriteCsv \/ DeleteFolder
    \/ InitCount \/ InitCheckEmpty \/ InitList \/ InitLoop
    \/ ConsumeNew \/ ConsumeDel
    \/ SearchPartial \/ SearchByKey \/ GetFiles \/ GetInfo

Spec == Init /\ [][Next]_vars

-----------------------------------------------------------------------------
(* folder_watcher *)

\* the code point order of the characters used, for sorted()
CodePoint(c) ==
    CASE c = "-" -> 45 [] c = "." -> 46 [] c = "1" -> 49 [] c = "A" -> 65
      [] c = "B" -> 66 [] c = "_" -> 95 [] c = "a" -> 97 [] c = "b" -> 98

\* Python's a < b on strings
RECURSIVE StrLess(_, _)
StrLess(a, b) ==
    IF b = <<>> THEN FALSE
    ELSE IF a = <<>> THEN TRUE
    ELSE IF Head(a) = Head(b) THEN StrLess(Tail(a), Tail(b))
    ELSE CodePoint(Head(a)) < CodePoint(Head(b))

\* a variant of sorted() that leaves the names in descending order
RECURSIVE SortedDescending(_)
SortedDescending(S) ==
    IF S = {} THEN <<>>
    ELSE LET greatest == CHOOSE x \in S : \A y \in S \ {x} : StrLess(y, x)
         IN  <<greatest>> \o SortedDescending(S \ {greatest})

\* sorted(names)
RECURSIVE Sorted(_)
Sorted(S) ==
    IF S = {} THEN <<>>
    ELSE LET least == CHOOSE x \in S : \A y \in S \ {x} : StrLess(x, y)
         IN  <<least>> \o Sorted(S \ {least})

\* what os.scandir(STORAGE_PATH) raises: FileNotFoundError when the path is
\* gone, PermissionError when it is unreadable, NotADirectoryError when it
\* names something that is not a directory
ScandirExc(access) ==
    CASE access = "gone" -> "FileNotFoundError"
      [] access = "denied" -> "PermissionError"
      [] access = "notdir" -> "NotADirectoryError"
      [] OTHER -> NoExc

\* folder_watcher.py:64, except (PermissionError, FileNotFoundError)
ScanCaught == {"PermissionError", "FileNotFoundError"}

\* a variant of _list_child_folders that handles FileNotFoundError only
ListChildFoldersExcNarrow(access) ==
    IF ScandirExc(access) = "FileNotFoundError" THEN NoExc ELSE ScandirExc(access)

\* the exception that leaves _list_child_folders
ListChildFoldersExc(access) ==
    IF ScandirExc(access) \in ScanCaught THEN NoExc ELSE ScandirExc(access)

\* _list_child_folders: when os.scandir raises one of the two exceptions it
\* handles, the function returns set().
\* Every child of the modelled directory is a directory.
ListChildFolders(st, access, hidden) ==
    IF access # "ok" THEN {}
    ELSE {n \in Root(st) : hidden \/ Head(n) # "."}

Payload(event, name) == [event |-> event, folder_name |-> name]

\* run.py:7, multiprocessing.Queue() with the default maxsize: not positive,
\* which stands for a queue with no limit on the number of items
QueueMaxsize == 0

\* put(block=False) raises queue.Full
QueueFull(queue) == QueueMaxsize > 0 /\ Len(queue) >= QueueMaxsize

\* a variant of _safe_put whose payload reaches the queue in every case
SafePutAlways(queue, payload, open) == Append(queue, payload)

\* a variant of _safe_put that puts the payload at the front of the queue
SafePutFront(queue, payload, open) ==
    IF open /\ ~QueueFull(queue) THEN <<payload>> \o queue ELSE queue

\* _safe_put: out_queue.put(payload, block=False) raises when the queue is
\* full, closed or broken, and _safe_put swallows every exception
SafePut(queue, payload, open) ==
    IF open /\ ~QueueFull(queue) THEN Append(queue, payload) ELSE queue

WatcherStep ==
    /\ ret' = ret
    /\ UNCHANGED <<storage, disk_ops, root_access, botVars, authVars>>

\* folder_watcher.py:126-140
WCheckRoot ==
    /\ w_pc = "L126"
    /\ w_pc' = IF root_access = "gone" THEN "raised" ELSE "L144"
    /\ WatcherStep
    /\ UNCHANGED <<include_hidden, stop_event, terminate_requested, previous,
                   current, to_send, out_queue, queue_open, ticks, emitted,
                   preexisting, tick_events, scan_errors,
                   poll_interval, waited, clamped, seeded>>

\* a variant that leaves poll_interval as it was passed
ClampPollIntervalNone(interval) == interval

\* folder_watcher.py:148-150
ClampPollInterval(interval) == IF interval < 0 THEN 0 ELSE interval

\* folder_watcher.py:197-211, the timeout given to stop_event.wait;
\* folder_watcher.py:212-236, the time the loop of time.sleep steps takes: no
\* step when slept < poll_interval is false at once
WaitDuration(event, interval) ==
    IF event # "absent" THEN interval
    ELSE IF interval > 0 THEN interval ELSE 0

\* folder_watcher.py:144-150, the seeding scan and the lower bound of poll_interval
WSeed ==
    /\ w_pc = "L144"
    /\ scan_errors' = Append(scan_errors, ScandirExc(root_access) # NoExc)
    /\ preexisting' = IF root_access \in {"gone", "notdir"} THEN {} ELSE Root(storage)
    /\ IF ListChildFoldersExc(root_access) # NoExc
       THEN /\ w_pc' = "raised"
            /\ UNCHANGED <<previous, poll_interval, clamped, seeded>>
       ELSE /\ previous' = ListChildFolders(storage, root_access, include_hidden)
            /\ poll_interval' = ClampPollInterval(poll_interval)
            /\ clamped' = (poll_interval < 0)
            /\ seeded' = ListChildFolders(storage, root_access, include_hidden)
            /\ w_pc' = "L153"
    /\ WatcherStep
    /\ UNCHANGED <<include_hidden, stop_event, terminate_requested, current,
                   to_send, out_queue, queue_open, ticks, emitted, tick_events,
                   waited>>

\* a variant of the stop checks that looks at stop_event only
WLoopTopNoSignal ==
    /\ w_pc = "L153"
    /\ w_pc' = IF stop_event = "set" THEN "done" ELSE "L173"
    /\ WatcherStep
    /\ UNCHANGED <<include_hidden, stop_event, terminate_requested, previous,
                   current, to_send, out_queue, queue_open, ticks, emitted,
                   preexisting, tick_events, scan_errors,
                   poll_interval, waited, clamped, seeded>>

\* folder_watcher.py:153-170, the stop checks at the top of the loop
WLoopTop ==
    /\ w_pc = "L153"
    /\ w_pc' = IF stop_event = "set" \/ terminate_requested THEN "done" ELSE "L173"
    /\ WatcherStep
    /\ UNCHANGED <<include_hidden, stop_event, terminate_requested, previous,
                   current, to_send, out_queue, queue_open, ticks, emitted,
                   preexisting, tick_events, scan_errors,
                   poll_interval, waited, clamped, seeded>>

\* folder_watcher.py:175, added = current - previous
Added(now, before) == now \ before

\* a variant of the diff that overlooks the folders that went away
RemovedNone(now, before) == {}

\* folder_watcher.py:177, removed = previous - current
Removed(now, before) == before \ now

\* folder_watcher.py:173-177 and the two sorted() of 181 and 188
WScan ==
    /\ w_pc = "L173"
    /\ ticks < MaxTicks
    /\ ticks' = ticks + 1
    /\ scan_errors' = Append(scan_errors, ScandirExc(root_access) # NoExc)
    /\ tick_events' = <<>>
    /\ IF ListChildFoldersExc(root_access) # NoExc
       THEN /\ w_pc' = "raised"
            /\ UNCHANGED <<current, to_send>>
       ELSE /\ LET now == ListChildFolders(storage, root_access, include_hidden)
                   added == Added(now, previous)
                   removed == Removed(now, previous)
                   news == Sorted(added)
                   dels == Sorted(removed)
               IN  /\ current' = now
                   /\ to_send' = [i \in 1..Len(news) |-> Payload("new", news[i])]
                                    \o [i \in 1..Len(dels) |-> Payload("del", dels[i])]
            /\ w_pc' = "L181"
    /\ WatcherStep
    /\ UNCHANGED <<include_hidden, stop_event, terminate_requested, previous,
                   out_queue, queue_open, emitted, preexisting,
                   poll_interval, waited, clamped, seeded>>

\* a variant of the end of the tick that keeps previous when a put failed
WPutRetry ==
    /\ w_pc = "L181"
    /\ IF to_send = <<>>
       THEN /\ previous' = IF queue_open THEN current ELSE previous
            /\ w_pc' = "L197"
            /\ UNCHANGED <<to_send, out_queue, emitted, tick_events>>
       ELSE /\ out_queue' = SafePut(out_queue, Head(to_send), queue_open)
            /\ emitted' = Append(emitted, Head(to_send))
            /\ tick_events' = Append(tick_events, Head(to_send))
            /\ to_send' = Tail(to_send)
            /\ UNCHANGED <<previous, w_pc>>
    /\ WatcherStep
    /\ UNCHANGED <<include_hidden, stop_event, terminate_requested, current,
                   queue_open, ticks, preexisting, scan_errors,
                   poll_interval, waited, clamped, seeded>>

\* folder_watcher.py:181-195: one _safe_put, or the end of the tick
WPut ==
    /\ w_pc = "L181"
    /\ IF to_send = <<>>
       THEN /\ previous' = current
            /\ w_pc' = "L197"
            /\ UNCHANGED <<to_send, out_queue, emitted, tick_events>>
       ELSE /\ out_queue' = SafePut(out_queue, Head(to_send), queue_open)
            /\ emitted' = Append(emitted, Head(to_send))
            /\ tick_events' = Append(tick_events, Head(to_send))
            /\ to_send' = Tail(to_send)
            /\ UNCHANGED <<previous, w_pc>>
    /\ WatcherStep
    /\ UNCHANGED <<include_hidden, stop_event, terminate_requested, current,
                   queue_open, ticks, preexisting, scan_errors,
                   poll_interval, waited, clamped, seeded>>

\* folder_watcher.py:197-236, the wait between two ticks: with a stop_event,
\* stop_event.wait(timeout) returns True once the event is set; without one,
\* the function sleeps in steps
WWait ==
    /\ w_pc = "L197"
    /\ w_pc' = IF stop_event = "set" THEN "done" ELSE "L153"
    /\ waited' = Append(waited, WaitDuration(stop_event, poll_interval))
    /\ UNCHANGED terminate_requested
    /\ WatcherStep
    /\ UNCHANGED <<include_hidden, stop_event, previous, current, to_send,
                   out_queue, queue_open, ticks, emitted, preexisting,
                   tick_events, scan_errors, poll_interval, clamped, seeded>>

\* folder_watcher._handle_terminate: SIGTERM or SIGINT reaches the process
HandleTerminate ==
    /\ w_pc \notin {"L126", "done", "raised"}
    /\ ~terminate_requested
    /\ terminate_requested' = TRUE
    /\ WatcherStep
    /\ UNCHANGED <<w_pc, include_hidden, stop_event, previous, current,
                   to_send, out_queue, queue_open, ticks, emitted, preexisting,
                   tick_events, scan_errors,
                   poll_interval, waited, clamped, seeded>>

\* another process sets the multiprocessing.Event given as stop_event
SetStopEvent ==
    /\ stop_event = "clear"
    /\ stop_event' = "set"
    /\ WatcherStep
    /\ UNCHANGED <<w_pc, include_hidden, terminate_requested, previous,
                   current, to_send, out_queue, queue_open, ticks, emitted,
                   preexisting, tick_events, scan_errors,
                   poll_interval, waited, clamped, seeded>>

\* what STORAGE_DIR names: a directory ("ok"), nothing ("gone"), a directory
\* that cannot be read ("denied") or something that is no directory ("notdir")
RootStates == {"ok", "gone", "denied", "notdir"}

\* the storage directory becomes unreadable, disappears, or comes back
RootAccess ==
    /\ disk_ops + Len(applied) < MaxOps
    /\ \E a \in RootStates :
          /\ a # root_access
          /\ root_access' = a
    /\ disk_ops' = disk_ops + 1
    /\ ret' = ret
    /\ UNCHANGED <<storage, botVars, watcherVars, authVars>>

\* the queue is closed, or the process at its other end is gone
BreakQueue ==
    /\ queue_open
    /\ queue_open' = FALSE
    /\ WatcherStep
    /\ UNCHANGED <<w_pc, include_hidden, stop_event, terminate_requested,
                   previous, current, to_send, out_queue, ticks, emitted,
                   preexisting, tick_events, scan_errors,
                   poll_interval, waited, clamped, seeded>>

\* a folder whose name starts with a dot appears
MakeHiddenDir ==
    /\ ~storage[HiddenName].exists
    /\ StorageStep([storage EXCEPT ![HiddenName] = EmptyFolder])

\* the watcher process from the call of run_watcher on, whatever its arguments
\* and whatever the state of the storage directory
InitW ==
    /\ storage \in {[n \in AllNames |-> IF n \in R THEN EmptyFolder ELSE Absent] :
                       R \in SUBSET AllNames}
    /\ root_access \in RootStates
    /\ InitBot
    /\ InitWatcher
    /\ include_hidden \in BOOLEAN
    /\ stop_event \in {"absent", "clear"}
    /\ poll_interval = DefaultPollInterval

NextW ==
    \/ WCheckRoot \/ WSeed \/ WLoopTop \/ WScan \/ WPut \/ WWait
    \/ HandleTerminate \/ SetStopEvent \/ BreakQueue
    \/ RootAccess \/ MakeDirs \/ MakeHiddenDir \/ DeleteFolder

SpecW == InitW /\ [][NextW]_vars

\* the steps of run_watcher itself
WatcherNext == WCheckRoot \/ WSeed \/ WLoopTop \/ WScan \/ WPut \/ WWait

\* the watcher process on a readable or missing storage directory, with the
\* signals and the stop event that end it
InitStop ==
    /\ storage \in {[n \in AllNames |-> IF n \in R THEN EmptyFolder ELSE Absent] :
                       R \in SUBSET FolderNames}
    /\ root_access \in {"ok", "gone"}
    /\ InitBot
    /\ InitWatcher
    /\ include_hidden = FALSE
    /\ stop_event \in {"absent", "clear"}
    /\ poll_interval \in PollIntervals

NextStop ==
    \/ WatcherNext
    \/ HandleTerminate \/ SetStopEvent
    \/ MakeDirs \/ DeleteFolder

\* the watcher is a sequential process that the system keeps scheduling; its
\* waits have timeouts
SpecStop == InitStop /\ [][NextStop]_vars /\ WF_vars(WatcherNext)

-----------------------------------------------------------------------------
(* The whole program, run.py: importing telegram_bot.bot builds the index in
   the parent process; then the watcher process and the bot process start,
   joined by the queue *)

\* a variant of the consumer's queue.get() that leaves the payload in the queue
QueuePeek(queue) == queue

\* what queue.get() leaves in the queue
QueueGet(queue) == Tail(queue)

\* bot.py:39-47, one turn of process_watchdog_queue's loop
ConsumeGet ==
    /\ out_queue # <<>>
    /\ LET file_event == Head(out_queue) IN
          IF file_event.event = "new"
          THEN ApplyNew(file_event.folder_name)
          ELSE ApplyDel(file_event.folder_name)
    /\ out_queue' = QueueGet(out_queue)
    /\ UNCHANGED <<storage, pc, listing, num, disk_ops, listed, root_access>>
    /\ UNCHANGED <<w_pc, include_hidden, stop_event, terminate_requested,
                   previous, current, to_send, queue_open, ticks, emitted,
                   preexisting, tick_events, scan_errors,
                   poll_interval, waited, clamped, seeded>>
    /\ UNCHANGED authVars

\* run.py:8-10, the watcher process, started once the imports are done
SysWatcher ==
    /\ pc = "ready"
    /\ (WCheckRoot \/ WSeed \/ WLoopTop \/ WScan \/ WPut \/ WWait)

NextSys ==
    \/ InitCount \/ InitCheckEmpty \/ InitList \/ InitLoop
    \/ SysWatcher \/ ConsumeGet \/ BreakQueue
    \/ MakeDirs \/ DeleteFolder

SpecSys == Init /\ [][NextSys]_vars

\* the storage directory loses or gets back its read permission while the
\* program runs: os.scandir(root) raises PermissionError, and the children
\* stay reachable by their paths (service.py:232)
ScanTrouble ==
    /\ pc = "ready"
    /\ disk_ops + Len(applied) < MaxOps
    /\ root_access \in {"ok", "denied"}
    /\ root_access' = IF root_access = "ok" THEN "denied" ELSE "ok"
    /\ disk_ops' = disk_ops + 1
    /\ ret' = ret
    /\ UNCHANGED <<storage, botVars, watcherVars, authVars>>

NextSysErr == NextSys \/ ScanTrouble

\* the whole program with scans of the watcher that fail for a while
SpecSysErr == Init /\ [][NextSysErr]_vars

-----------------------------------------------------------------------------
(* The bot's handlers and the users' flags. Every chat is the private chat  *)
(* of its user, where message.chat.id is message.from_user.id. A handler    *)
(* runs without interruption up to its first call of the Telegram API; what *)
(* it does after that call is a step of its own.                             *)

\* the texts of a message: the three commands, config_.PASSPHRASE, the "Да"
\* of the logout keyboard, and any other text
Texts == {"/start", "/search", "/logout", "passphrase", "yes", "text"}

\* the data of a callback query
CallbackData == {"prev_page", "next_page", "folderId", "search:contract",
                 "search:phone", "search:address", "search:partial"}

\* a variant of the middleware with the flag its docstring names
BanMiddlewareDropsFlag3(c, u) == c[u] # NoFlag /\ c[u] = 3

\* middleware_ban.py:22-23
BanMiddlewareDrops(c, u) == c[u] # NoFlag /\ c[u] = 2

\* database_crud.py:60-74
Insert(c, u, flag) == IF c[u] # NoFlag THEN c ELSE [c EXCEPT ![u] = flag]

\* database_crud.py:76-86
Delete(c, u) == IF c[u] = NoFlag THEN c ELSE [c EXCEPT ![u] = NoFlag]

\* database_crud.py:65-73, the table after insert
InsertRows(c, rows, u, flag) ==
    IF c[u] # NoFlag THEN rows ELSE [rows EXCEPT ![u] = flag]

\* database_crud.py:78-84, the table after delete
DeleteRows(c, rows, u) ==
    IF c[u] = NoFlag THEN rows ELSE [rows EXCEPT ![u] = NoFlag]

\* bot.py:16-18 and the filters of the message handlers, in the order the
\* dispatcher tries them
RouteMessage(text, state) ==
    CASE text = "/start" -> "cmd_start"
      [] text # "/start" /\ state = "waiting_for_password" -> "process_password"
      [] OTHER ->
           IF text = "/logout" THEN "logout_cmd"
           ELSE IF state = "confirm"
                THEN (IF text = "yes" THEN "logout_confirm_yes" ELSE "logout_confirm_no")
           ELSE IF text = "/search" THEN "cmd_search"
           ELSE IF state \in SearchTypes THEN "search_by_key"
           ELSE "search_by_partial_query"

\* bot.py:19 and the filters of callbacks.py
RouteCallback(data, state) ==
    IF data \in {"prev_page", "next_page"} /\ state = "viewing_list"
    THEN "handle_pagination"
    ELSE IF data = "folderId" THEN "handle_press_btn"
    ELSE IF data \in {"search:contract", "search:phone", "search:address",
                      "search:partial"}
         THEN "search_type_callback"
    ELSE "unhandled"

\* what a handler leaves for its user
Effect(c, state, attempts, later) ==
    [cash |-> c, state |-> state, attempts |-> attempts, later |-> later,
     rows |-> db_rows, sent |-> "none"]

\* state.clear()
Cleared(c, later) == Effect(c, None, 0, later)

\* handler_login.py:35-61
CmdStart(c, u, state, attempts) ==
    IF c[u] # NoFlag \/ state = "waiting_for_password"
    THEN Effect(c, state, attempts, {})
    ELSE Effect(c, "waiting_for_password", 0, {})

\* handler_login.py:64-91, up to the answer of line 75, 80 or 89
ProcessPassword(c, u, state, attempts, text) ==
    IF text = "passphrase"
    THEN [Effect(Insert(c, u, 1), state, attempts, {"L76"})
             EXCEPT !.rows = InsertRows(c, db_rows, u, 1)]
    ELSE IF attempts + 1 >= MAX_ATTEMPTS_PASSPHRASE
         THEN Effect(c, state, attempts, {"L81"})
         ELSE Effect(c, state, attempts + 1, {})

\* handler_logout.py:26-67
LogoutCmd(c, u, state, attempts) ==
    IF c[u] # NoFlag THEN Effect(c, "confirm", attempts, {})
    ELSE Effect(c, state, attempts, {})

LogoutConfirmYes(c, u) ==
    [Cleared(Delete(c, u), {}) EXCEPT !.rows = DeleteRows(c, db_rows, u)]

LogoutConfirmNo(c) == Cleared(c, {})

\* handler_search.py:29-42
CmdSearch(c, u, state, attempts) ==
    IF c[u] = NoFlag THEN Effect(c, state, attempts, {})
    ELSE Effect(c, "choose_type", attempts, {})

\* handler_search.py:45-70, up to the answer of line 58 or 63
SearchByKeyHandler(c, state, attempts, query) ==
    IF SearchFoldersByKey(file_manager, query, state) = <<>>
    THEN Effect(c, state, attempts, {})
    ELSE [Effect(c, "viewing_list", attempts, {"L68"}) EXCEPT !.sent = "folders"]

\* handler_search.py:73-94
SearchByPartialQuery(c, u, state, attempts, query) ==
    IF c[u] = NoFlag \/ SearchFoldersByPartial(file_manager, query) = <<>>
    THEN Effect(c, state, attempts, {})
    ELSE [Effect(c, "viewing_list", attempts, {}) EXCEPT !.sent = "folders"]

\* callbacks.py:79-105
SearchTypeCallback(c, attempts, data) ==
    CASE data = "search:contract" -> Effect(c, "by_contract", attempts, {})
      [] data = "search:phone" -> Effect(c, "by_phone", attempts, {})
      [] data = "search:address" -> Effect(c, "by_address", attempts, {})
      [] OTHER -> Cleared(c, {})

Handled(u, handler) == [user |-> u, handler |-> handler]

\* the dispatcher has run a coroutine for user u
UserStep(u, handler, e) ==
    /\ cash' = e.cash
    /\ fsm_state' = [fsm_state EXCEPT ![u] = e.state]
    /\ fsm_attempts' = [fsm_attempts EXCEPT ![u] = e.attempts]
    /\ in_flight' = [in_flight EXCEPT ![u] = e.later]
    /\ handled' = Handled(u, handler)
    /\ db_rows' = e.rows
    /\ sent' = e.sent
    /\ ret' = ret
    /\ UNCHANGED <<storage, disk_ops, root_access, botVars, watcherVars>>

\* the effect that changes nothing
Same(u) == Effect(cash, fsm_state[u], fsm_attempts[u], in_flight[u])

\* the effect of a handler together with the handlers already suspended
With(u, e) == [e EXCEPT !.later = in_flight[u] \cup @]

\* a message of user u reaches the dispatcher
MessageUpdate ==
    /\ pc = "ready"
    /\ \E u \in Users, text \in Texts, query \in Queries :
          LET state == fsm_state[u]
              attempts == fsm_attempts[u]
              handler == RouteMessage(text, state)
          IN  IF BanMiddlewareDrops(cash, u)
              THEN UserStep(u, "dropped", Same(u))
              ELSE UserStep(u, handler, With(u,
                     CASE handler = "cmd_start" -> CmdStart(cash, u, state, attempts)
                       [] handler = "process_password" ->
                            ProcessPassword(cash, u, state, attempts, text)
                       [] handler = "logout_cmd" -> LogoutCmd(cash, u, state, attempts)
                       [] handler = "logout_confirm_yes" -> LogoutConfirmYes(cash, u)
                       [] handler = "logout_confirm_no" -> LogoutConfirmNo(cash)
                       [] handler = "cmd_search" -> CmdSearch(cash, u, state, attempts)
                       [] handler = "search_by_key" ->
                            SearchByKeyHandler(cash, state, attempts, query)
                       [] OTHER ->
                            SearchByPartialQuery(cash, u, state, attempts, query)))

\* callbacks.py:15-34: the keyboard of one page of the items kept in the FSM
\* data. The lists of the model are shorter than keyboards.ITEMS_PER_PAGE, so
\* "prev_page" shows them all on page 0 and "next_page" shows a page past
\* their end.
HandlePagination(u, data) ==
    [Same(u) EXCEPT !.sent = IF data = "prev_page" THEN "folders" ELSE "none"]

\* callbacks.py:37-76: the descriptor and the images of the folder are sent
\* when neither read raised and prepare_images found an image
HandlePressBtn(u, folder_id, cwd_empty, files) ==
    LET info == GetDataFromInfoFile(file_manager, storage, folder_id, cwd_empty) IN
    [Same(u) EXCEPT !.sent =
        IF /\ info.exc = NoExc
           /\ files.exc = NoExc
           /\ \E i \in 1..Len(files.files) : files.files[i][2] \in FileNames
        THEN "files" ELSE "none"]

\* a callback query of user u reaches the dispatcher
CallbackUpdate ==
    /\ pc = "ready"
    /\ \E u \in Users, data \in CallbackData, folder_id \in FolderIds,
          cwd_empty \in BOOLEAN :
          \E files \in GetFilesFromFolder(file_manager, storage, folder_id, cwd_empty) :
          LET handler == RouteCallback(data, fsm_state[u]) IN
          IF BanMiddlewareDrops(cash, u)
          THEN UserStep(u, "dropped", Same(u))
          ELSE UserStep(u, handler,
                 CASE handler = "search_type_callback" ->
                        With(u, SearchTypeCallback(cash, fsm_attempts[u], data))
                   [] handler = "handle_pagination" -> HandlePagination(u, data)
                   [] handler = "handle_press_btn" ->
                        HandlePressBtn(u, folder_id, cwd_empty, files)
                   [] OTHER -> Same(u))

\* a suspended handler goes on after its answer: handler_login.py:76,
\* handler_login.py:81-83 and handler_search.py:68; when the answer raised,
\* the handler's except clause ends it
ResumeHandler ==
    \E u \in Users, answered \in BOOLEAN : \E label \in in_flight[u] :
        LET rest == in_flight[u] \ {label} IN
        UserStep(u, label,
            IF ~answered THEN [Same(u) EXCEPT !.later = rest]
            ELSE IF label = "L81"
                 THEN LET banned == [cash EXCEPT ![u] = 2] IN
                      [Cleared(Insert(banned, u, 2), rest)
                          EXCEPT !.rows = InsertRows(banned, db_rows, u, 2)]
                 ELSE Cleared(cash, rest))

NextAuth ==
    \/ InitCount \/ InitCheckEmpty \/ InitList \/ InitLoop
    \/ MessageUpdate \/ CallbackUpdate \/ ResumeHandler

\* the bot process and its users
SpecAuth == Init /\ [][NextAuth]_vars

-----------------------------------------------------------------------------
(* Properties of the folder index *)

Last(s) == s[Len(s)]

PrimaryNames(fm) == {fm.folders_by_id[i].folder_name : i \in 1..Len(fm.folders_by_id)}

HasPrimary(fm, name) == name \in PrimaryNames(fm)

\* this step is the consumer applying an event of this kind
Applies(event) ==
    /\ Len(applied') = Len(applied) + 1
    /\ Last(applied').event = event

\* the three os.listdir calls of __init__ saw the same children
StableInit == \A i, j \in 1..Len(listed) : listed[i] = listed[j]

Buckets(fm) == <<fm.folders_by_order, fm.folders_by_phone, fm.folders_by_address>>

\* C1: add(name) for a name that already has a primary entry changes nothing:
\* not the primary index, not the id counter, not the secondary indexes.
C1_AddIsIdempotent ==
    [][(Applies("new") /\ HasPrimary(file_manager, Last(applied').folder_name))
          => file_manager' = file_manager]_vars

\* C2: after a construction that saw n folders, add of an unseen name followed
\* by remove of an existing name leaves the primary names
\* (initial + added - removed), and the added entry's id is n.
C2_AddThenRemove ==
    (/\ pc = "ready"
     /\ StableInit
     /\ Len(applied) = 2
     /\ applied[1].event = "new"
     /\ applied[2].event = "del"
     /\ applied[1].folder_name \notin listed[1]
     /\ applied[2].folder_name \in listed[1] \cup {applied[1].folder_name})
    => LET n == Cardinality(listed[1])
           added == applied[1].folder_name
           removed == applied[2].folder_name
           d == file_manager.folders_by_id
       IN  /\ PrimaryNames(file_manager) = (listed[1] \cup {added}) \ {removed}
           /\ Len(created) = n + 1
           /\ created[n + 1].folder_id = n
           /\ \A i \in 1..Len(d) : d[i].folder_name = added => d[i].folder_id = n

\* C2's case: construction saw one folder, the other name was added and the
\* first one removed
C2_Witness ==
    /\ pc = "ready"
    /\ StableInit
    /\ Len(applied) = 2
    /\ applied[1].event = "new" /\ applied[1].exc = NoExc
    /\ applied[2].event = "del"
    /\ Cardinality(listed[1]) = 1
    /\ applied[1].folder_name \notin listed[1]
    /\ applied[2].folder_name \in listed[1]
    /\ Len(file_manager.folders_by_id) = 1

\* C3: every newly created primary entry gets an id greater than every id
\* assigned before it, and no two primary entries share an id.
C3_IdsNeverReused ==
    /\ \A i, j \in 1..Len(created) :
          i < j => created[i].folder_id < created[j].folder_id
    /\ \A i, j \in 1..Len(file_manager.folders_by_id) :
          i # j => file_manager.folders_by_id[i].folder_id
                      # file_manager.folders_by_id[j].folder_id

\* C4: remove(name) deletes the first primary entry with that name and no
\* other, nothing when there is none; the secondary indexes and the id
\* counter stay as they were.
C4_RemoveFrame ==
    [][Applies("del") =>
          LET name == Last(applied').folder_name
              d == file_manager.folders_by_id
              e == file_manager'.folders_by_id
              hits == {i \in 1..Len(d) : d[i].folder_name = name}
          IN  /\ Buckets(file_manager') = Buckets(file_manager)
              /\ file_manager'.total_folders = file_manager.total_folders
              /\ IF hits = {} THEN e = d
                 ELSE \E first \in hits :
                        /\ \A j \in hits : first <= j
                        /\ Len(e) = Len(d) - 1
                        /\ \A i \in 1..Len(e) : e[i] = IF i < first THEN d[i] ELSE d[i + 1]
      ]_vars

\* C4's case: a del was applied to a name that had two entries, one is left,
\* and a secondary index holds references
C4_Witness ==
    /\ Len(applied) >= 2
    /\ Last(applied).event = "del"
    /\ HasPrimary(file_manager, Last(applied).folder_name)
    /\ DOMAIN file_manager.folders_by_order # {}

RefOf(entry) == FolderDataByKey(entry.folder_name, entry.folder_id)

\* C5: searchPartial(query) returns the primary entries whose slug contains
\* normalize(query), each once, in ascending id order, and never raises.
C5_PartialSearch ==
    ret.op = "partial" =>
        LET q == NormalizeString(ret.query)
            d == file_manager.folders_by_id
            matching == {i \in 1..Len(d) : IsSubstring(q, d[i].slug)}
        IN  /\ ret.exc = NoExc
            /\ ret.val = "list"
            /\ Len(ret.list) = Cardinality(matching)
            /\ {ret.list[k] : k \in 1..Len(ret.list)} = {RefOf(d[i]) : i \in matching}
            /\ \A k, l \in 1..Len(ret.list) :
                  k < l => ret.list[k].folder_id < ret.list[l].folder_id

\* C5's case: a query typed in upper case matched two entries and not a third
C5_Witness ==
    /\ ret.op = "partial"
    /\ ret.query = <<"A", "B">>
    /\ Len(ret.list) = 2
    /\ Len(file_manager.folders_by_id) = 3

FieldOf(fields, search_type) ==
    CASE search_type = "by_contract" -> fields.order
      [] search_type = "by_phone" -> fields.phone
      [] search_type = "by_address" -> fields.address

\* the folder's info.csv was there and readable when the entry was created
HadDescriptor(c) == c.folder.exists /\ c.folder.csv.st = "ok"

\* the references of the entries created with a descriptor whose field of
\* this kind normalized to normalize(query), in creation order
RECURSIVE IndexedWith(_, _, _, _)
IndexedWith(cs, query, search_type, empty_too) ==
    IF cs = <<>> THEN <<>>
    ELSE LET c == Head(cs)
             field == FieldOf(c.folder.csv.fields, search_type)
         IN  IF /\ HadDescriptor(c)
                /\ empty_too \/ field # <<>>
                /\ NormalizeString(field) = NormalizeString(query)
             THEN <<FolderDataByKey(c.folder_name, c.folder_id)>>
                     \o IndexedWith(Tail(cs), query, search_type, empty_too)
             ELSE IndexedWith(Tail(cs), query, search_type, empty_too)

\* C6 as stated: searchByKey(query, kind) returns every folder reference whose
\* descriptor field of that kind normalized to normalize(query) when the
\* folder was indexed, in indexing order.
C6_KeySearchAnyField ==
    (ret.op = "by_key" /\ ret.search_type \in SearchTypes) =>
        /\ ret.exc = NoExc
        /\ ret.val = "list"
        /\ ret.list = IndexedWith(created, ret.query, ret.search_type, TRUE)

\* C6 amended: searchByKey(query, kind) returns the references of the folders
\* whose descriptor had a non-empty field of that kind that normalized to
\* normalize(query) when the folder was indexed, in indexing order, and an
\* empty list, never None or an error, when there is none.
C6_KeySearch ==
    (ret.op = "by_key" /\ ret.search_type \in SearchTypes) =>
        /\ ret.exc = NoExc
        /\ ret.val = "list"
        /\ ret.list = IndexedWith(created, ret.query, ret.search_type, FALSE)

\* C6's case: a search by contract number found two folders
C6_Witness ==
    /\ ret.op = "by_key"
    /\ ret.search_type = "by_contract"
    /\ Len(ret.list) = 2
    /\ ret.list[1].folder_name # ret.list[2].folder_name

\* C7: searchByKey with a kind that is none of the three returns an empty
\* list, does not raise and leaves the index as it was.
C7_UnknownKind ==
    [][(ret'.op = "by_key" /\ ret'.search_type \notin SearchTypes) =>
          /\ ret'.list = <<>>
          /\ ret'.val = "list"
          /\ ret'.exc = NoExc
          /\ file_manager' = file_manager]_vars

\* C7's case: the kind is unknown and the query is a key of the contract index
C7_Witness ==
    /\ ret.op = "by_key"
    /\ ret.search_type \notin SearchTypes
    /\ NormalizeString(ret.query) \in DOMAIN file_manager.folders_by_order

\* what getFiles and readDescriptor are asked about
UnknownId(id) == id \notin DictKeys(file_manager.folders_by_id)

NameOfId(id) == GetFullPathFolderById(file_manager, id).folder_name

FolderMissing(id) == ~UnknownId(id) /\ ~storage[NameOfId(id)].exists

FolderEmpty(id) ==
    /\ ~UnknownId(id)
    /\ storage[NameOfId(id)].exists
    /\ FolderEntries(storage[NameOfId(id)]) = {}

NoDescriptor(id) ==
    /\ ~UnknownId(id)
    /\ storage[NameOfId(id)].exists
    /\ storage[NameOfId(id)].csv.st = "missing"

DescriptorUnreadable(id) ==
    /\ ~UnknownId(id)
    /\ storage[NameOfId(id)].exists
    /\ storage[NameOfId(id)].csv.st = "bad"

\* C8: getFiles(id) returns None and does not raise when the id is unknown,
\* when its folder is not on disk, and when the folder holds no file.
C8_GetFilesNone ==
    (/\ ret.op = "get_files"
     /\ UnknownId(ret.folder_id) \/ FolderMissing(ret.folder_id) \/ FolderEmpty(ret.folder_id))
    => ret.exc = NoExc /\ ret.val = None

\* C9: readDescriptor(id) returns None and does not raise when the id is
\* unknown, the folder is not on disk, the folder is empty, it has no
\* info.csv, or info.csv cannot be parsed.
C9_ReadDescriptorNone ==
    (/\ ret.op = "get_info"
     /\ \/ UnknownId(ret.folder_id)
        \/ FolderMissing(ret.folder_id)
        \/ FolderEmpty(ret.folder_id)
        \/ NoDescriptor(ret.folder_id)
        \/ DescriptorUnreadable(ret.folder_id))
    => ret.exc = NoExc /\ ret.val = None

-----------------------------------------------------------------------------
(* Properties of the watcher *)

\* C10: no "new" event is emitted for a folder that was in the storage
\* directory when the watcher started unless a "del" event for that name was
\* emitted before it; nothing is emitted up to and including the seeding scan.
C10_NoNewForPreexisting ==
    /\ w_pc \in {"L126", "L144"} => emitted = <<>>
    /\ \A k \in 1..Len(emitted) :
          (emitted[k].event = "new" /\ emitted[k].folder_name \in preexisting)
              => \E j \in 1..(k - 1) :
                    /\ emitted[j].event = "del"
                    /\ emitted[j].folder_name = emitted[k].folder_name

\* the tick in progress has called _safe_put for all its payloads
TickSent == w_pc = "L181" /\ to_send = <<>>

\* how many times the tick called _safe_put with this payload
TickCount(payload) ==
    Cardinality({i \in 1..Len(tick_events) : tick_events[i] = payload})

\* C11: a tick calls _safe_put once with a "new" payload for each name of
\* current - previous, once with a "del" payload for each name of
\* previous - current, and with nothing else; so it sends nothing when the
\* two scans agree and never both a "new" and a "del" for one name.  When the
\* tick is over, previous equals current.
C11_TickDiff ==
    /\ TickSent =>
          /\ \A n \in AllNames :
                /\ TickCount(Payload("new", n))
                      = IF n \in current /\ n \notin previous THEN 1 ELSE 0
                /\ TickCount(Payload("del", n))
                      = IF n \in previous /\ n \notin current THEN 1 ELSE 0
                /\ TickCount(Payload("new", n)) + TickCount(Payload("del", n)) <= 1
          /\ \A i \in 1..Len(tick_events) :
                /\ tick_events[i].event \in {"new", "del"}
                /\ tick_events[i].folder_name \in AllNames
          /\ current = previous => tick_events = <<>>
    /\ w_pc = "L197" => previous = current

\* C11's case: the second tick has sent a "new" and a "del"
C11_Witness ==
    /\ TickSent
    /\ ticks = 2
    /\ \E n, m \in AllNames :
          /\ TickCount(Payload("new", n)) = 1
          /\ TickCount(Payload("del", m)) = 1

\* the payloads of the tick in progress, sent and still to send
TickPayloads == tick_events \o to_send

\* C12: the payloads of one tick are the "new" ones in ascending order of
\* folder name followed by the "del" ones in ascending order of folder name.
C12_TickOrder ==
    w_pc = "L181" =>
        \A i, j \in 1..Len(TickPayloads) :
            i < j =>
                LET a == TickPayloads[i]
                    b == TickPayloads[j]
                IN  /\ ~(a.event = "del" /\ b.event = "new")
                    /\ a.event = b.event => StrLess(a.folder_name, b.folder_name)

\* C12's case: a tick with two "new" payloads and a "del" payload
C12_Witness ==
    /\ TickSent
    /\ Len(tick_events) = 3
    /\ tick_events[1].event = "new"
    /\ tick_events[2].event = "new"
    /\ tick_events[3].event = "del"

\* C13: when STORAGE_PATH does not exist at the call, run_watcher raises at
\* once, before any scan and any _safe_put; and run_watcher ends with an
\* exception in no other case.
C13_RootNotFound ==
    [][/\ (w_pc = "L126" /\ w_pc' # "L126")
            => (w_pc' = "raised" <=> root_access = "gone")
       /\ w_pc' = "raised"
            => /\ w_pc \in {"L126", "raised"}
               /\ scan_errors' = <<>>
               /\ emitted' = <<>>]_vars

\* run_watcher was asked to stop
StopRequested == stop_event = "set" \/ terminate_requested

\* C14: a scan of the polling loop that meets PermissionError or
\* FileNotFoundError gives current = {} for its tick, which then sends a
\* "del" for every name of previous and goes on; the loop is left only
\* when a stop was requested.
C14_ScanErrorTolerated ==
    [][/\ (w_pc = "L173" /\ w_pc' # "L173" /\ root_access \in {"gone", "denied"})
            => /\ w_pc' = "L181"
               /\ current' = {}
               /\ {to_send'[i] : i \in 1..Len(to_send')}
                     = {Payload("del", n) : n \in previous}
       /\ (w_pc \in {"L153", "L197"} /\ w_pc' # w_pc)
            => /\ w_pc' \in {"L153", "L173", "done"}
               /\ w_pc' = "done" => StopRequested]_vars

\* C14's case: the first scan of the loop failed and the second tick was made
C14_Witness ==
    /\ Len(scan_errors) = 3
    /\ scan_errors[2]
    /\ ticks = 2
    /\ w_pc = "L197"

C17_BoundedChannel ==
    /\ QueueMaxsize > 0
    /\ Len(out_queue) <= QueueMaxsize

-----------------------------------------------------------------------------
(* Properties of the whole program *)

CountIn(seq, payload) == Cardinality({i \in 1..Len(seq) : seq[i] = payload})

\* the payloads the consumer applied
AppliedPayloads ==
    [i \in 1..Len(applied) |-> Payload(applied[i].event, applied[i].folder_name)]

AllPayloads == {Payload(e, n) : e \in {"new", "del"}, n \in AllNames}

\* C16: a tick sends none of the payloads of the tick before it, whether the
\* queue took them or not, since previous advanced to current; and no payload
\* is applied or queued more often than it was sent.
C16_AtMostOnce ==
    /\ [][(w_pc = "L173" /\ w_pc' = "L181")
            => \A i \in 1..Len(tick_events), j \in 1..Len(to_send') :
                  tick_events[i] # to_send'[j]]_vars
    /\ [](\A e \in AllPayloads :
            CountIn(AppliedPayloads, e) + CountIn(out_queue, e) <= CountIn(emitted, e))

\* C16's case: a payload was applied, then the queue was closed and the
\* second tick lost a payload
C16_Witness ==
    /\ ~queue_open
    /\ ticks = 2
    /\ w_pc = "L197"
    /\ Len(applied) >= 1
    /\ tick_events # <<>>
    /\ Len(applied) + Len(out_queue) < Len(emitted)

\* C18: the payloads applied, followed by the payloads still queued, are the
\* payloads sent, in the order they were sent, up to the first one lost.
C18_Fifo ==
    LET taken == AppliedPayloads \o out_queue
    IN  /\ Len(taken) <= Len(emitted)
        /\ \A i \in 1..Len(taken) : taken[i] = emitted[i]

\* C18's case: two payloads of one tick were applied in the order sent
C18_Witness ==
    /\ Len(applied) >= 2
    /\ Len(emitted) >= 2
    /\ emitted[1] # emitted[2]
    /\ ticks = 1

\* nothing is under way: the index is built, no payload was lost, none is
\* queued, and the watcher's last scan saw the storage directory as it is
Quiescent ==
    /\ pc = "ready"
    /\ queue_open
    /\ out_queue = <<>>
    /\ w_pc \in {"L153", "L173", "L197"}
    /\ previous = Root(storage)

\* C20: once nothing is under way, the names of the primary entries are the
\* child folders of the storage directory.
C20_Converged ==
    Quiescent => PrimaryNames(file_manager) = Root(storage)

-----------------------------------------------------------------------------
(* Stopping the watcher *)

\* run_watcher is over
Ended == w_pc \in {"done", "raised"}

\* C19: run_watcher returns only when a stop was requested; a stop check that
\* sees the request leaves the loop, after which nothing is scanned or sent;
\* and once a stop is requested run_watcher eventually ends.
C19_CooperativeStop ==
    /\ [](w_pc = "done" => StopRequested)
    /\ [][/\ (w_pc = "L153" /\ StopRequested /\ w_pc' # w_pc) => w_pc' = "done"
          /\ (w_pc = "L197" /\ stop_event = "set" /\ w_pc' # w_pc) => w_pc' = "done"
          /\ w_pc = "done"
               => (w_pc' = "done" /\ ticks' = ticks /\ emitted' = emitted)]_vars
    /\ (StopRequested /\ ticks < MaxTicks) ~> Ended

\* C19's case: a signal arrived during a tick that sent a payload, and
\* run_watcher returned
C19_Witness ==
    /\ w_pc = "done"
    /\ terminate_requested
    /\ stop_event = "absent"
    /\ ticks >= 1
    /\ tick_events # <<>>

-----------------------------------------------------------------------------
(* Further properties of the consumer and the index *)

\* C21: the consumer task is running after every event it applied, and no
\* exception left add_folder or remove_folder.
C21_ConsumerSurvives ==
    /\ consumer = "running"
    /\ \A i \in 1..Len(applied) : applied[i].exc = NoExc

\* C22: once the index is built, file_manager changes only in a step in which
\* the running consumer applies one event; a read operation leaves it as it is.
C22_SingleWriter ==
    [][/\ (pc = "ready" /\ file_manager' # file_manager)
            => /\ consumer = "running"
               /\ Len(applied') = Len(applied) + 1
               /\ Last(applied').event \in {"new", "del"}
       /\ (ret' # ret /\ ret'.op # "none") => file_manager' = file_manager]_vars

\* C22's case: a search returned entries of an index that the consumer had
\* changed twice
C22_Witness ==
    /\ ret.op \in {"partial", "by_key"}
    /\ ret.list # <<>>
    /\ Len(applied) = 2
    /\ applied[1].event = "new"
    /\ applied[2].event = "del"

\* the three secondary indexes
SecondaryIndexes(fm) == <<fm.folders_by_order, fm.folders_by_phone, fm.folders_by_address>>

IsPrefix(s, t) == Len(s) <= Len(t) /\ \A i \in 1..Len(s) : s[i] = t[i]

\* C25: in every step, every bucket of each secondary index is still there
\* afterwards and has the bucket before the step as a prefix.
C25_AppendOnly ==
    [][\A x \in 1..3 :
          LET before == SecondaryIndexes(file_manager)[x]
              after == SecondaryIndexes(file_manager')[x]
          IN  \A key \in DOMAIN before :
                  /\ key \in DOMAIN after
                  /\ IsPrefix(before[key], after[key])]_vars

\* C25's case: a bucket holds two references and an entry was removed
C25_Witness ==
    /\ \E key \in DOMAIN file_manager.folders_by_order :
          Len(file_manager.folders_by_order[key]) = 2
    /\ applied # <<>>
    /\ Last(applied).event = "del"
    /\ Len(file_manager.folders_by_id) < Len(created)

\* every reference in the secondary indexes
SecondaryRefs(fm) ==
    UNION {UNION {{SecondaryIndexes(fm)[x][key][i] :
                      i \in 1..Len(SecondaryIndexes(fm)[x][key])} :
                  key \in DOMAIN SecondaryIndexes(fm)[x]} :
           x \in 1..3}

\* C26: every reference in a secondary bucket has the id and the name of a
\* primary entry that was created while its folder had a readable info.csv,
\* and a step that creates an entry for a folder without a readable info.csv
\* leaves the three secondary indexes as they were.
C26_IndexedOnlyWithDescriptor ==
    /\ [](\A ref \in SecondaryRefs(file_manager) :
            \E i \in 1..Len(created) :
                /\ created[i].folder_id = ref.folder_id
                /\ created[i].folder_name = ref.folder_name
                /\ HadDescriptor(created[i]))
    /\ [][(Len(created') = Len(created) + 1 /\ ~HadDescriptor(Last(created')))
              => SecondaryIndexes(file_manager') = SecondaryIndexes(file_manager)]_vars

\* C26's case: one entry was created with a readable info.csv and is in a
\* bucket, another was created without and is in none
C26_Witness ==
    /\ SecondaryRefs(file_manager) # {}
    /\ \E i \in 1..Len(created) :
          /\ ~HadDescriptor(created[i])
          /\ \A ref \in SecondaryRefs(file_manager) :
                ref.folder_name # created[i].folder_name

\* C27: the slug of every primary entry is the normalized form of its name,
\* and a partial search returns every entry whose normalized name contains
\* the normalized query.
C27_SlugIsNormalizedName ==
    LET d == file_manager.folders_by_id IN
    /\ \A i \in 1..Len(d) : d[i].slug = NormalizeString(d[i].folder_name)
    /\ ret.op = "partial" =>
          \A i \in 1..Len(d) :
              IsSubstring(NormalizeString(ret.query), NormalizeString(d[i].folder_name))
                  => \E k \in 1..Len(ret.list) : ret.list[k] = RefOf(d[i])

\* C27's case: the query "b-1" found folder "B1", and folder "A_b", whose
\* slugify form "a-b" differs from its slug, is indexed
C27_Witness ==
    /\ ret.op = "partial"
    /\ ret.query = <<"b", "-", "1">>
    /\ \E k \in 1..Len(ret.list) : ret.list[k].folder_name = <<"B", "1">>
    /\ HasPrimary(file_manager, <<"A", "_", "b">>)

\* C28: when construction is over, the primary ids are 0..n-1 in the order
\* of one listing of the directory and total_folders is n, the number of
\* primary entries.
C28_ConsistentConstruction ==
    (pc = "ready" /\ applied = <<>>) =>
        LET d == file_manager.folders_by_id IN
        /\ file_manager.total_folders = Len(d)
        /\ \A i \in 1..Len(d) : d[i].folder_id = i - 1 /\ d[i].key = i - 1

\* C29: in every state of the whole program, no two primary entries have
\* the same name.
C29_UniqueNames ==
    LET d == file_manager.folders_by_id IN
    \A i, j \in 1..Len(d) : d[i].folder_name = d[j].folder_name => i = j

\* the id the construction gave to the folder of this name
ConstructionId(n) ==
    created[CHOOSE i \in 1..Len(created) :
                /\ created[i].folder_name = n
                /\ \A j \in 1..(i - 1) : created[j].folder_name # n].folder_id

\* C30: a folder that has been on disk since before the construction (in the
\* whole program no step puts files into a folder, so these are the folders
\* that hold files) has exactly one primary entry, with the id the
\* construction gave it.
C30_StableIds ==
    \A n \in FolderNames :
        (pc = "ready" /\ storage[n].files # {}) =>
            LET d == file_manager.folders_by_id IN
            /\ \E i \in 1..Len(d) :
                  /\ d[i].folder_name = n
                  /\ d[i].folder_id = ConstructionId(n)
            /\ \A i, j \in 1..Len(d) :
                  (d[i].folder_name = n /\ d[j].folder_name = n) => i = j

\* C24: every wait between ticks has a duration of at least 0, poll_interval
\* is at least 0 from the end of the seeding scan on, and after every wait the
\* loop is at its stop checks or has ended.
C24_NonNegativeWaits ==
    /\ [](\A i \in 1..Len(waited) : waited[i] >= 0)
    /\ [](w_pc \in {"L153", "L173", "L181", "L197", "done"} => poll_interval >= 0)
    /\ [][(w_pc = "L197" /\ w_pc' # "L197") => w_pc' \in {"L153", "done"}]_vars
    /\ [][(w_pc' = "L173" /\ w_pc # "L173") => (w_pc = "L153" /\ ~StopRequested)]_vars

\* C24's case: run_watcher got a negative poll_interval and a stop_event, and
\* has waited twice
C24_Witness ==
    /\ clamped
    /\ stop_event # "absent"
    /\ Len(waited) = 2

C35_AddAllOrNothing ==
    /\ [][(Len(applied') = Len(applied) + 1
             /\ Last(applied').event = "new"
             /\ Last(applied').exc # NoExc)
              => file_manager' = file_manager]_vars
    /\ [](\A i \in 1..Len(file_manager.folders_by_id) :
             file_manager.folders_by_id[i].key # file_manager.total_folders)

\* the payloads _safe_put was called with for this name, in order
EventsOf(n) == SelectSeq(emitted, LAMBDA p : p.folder_name = n)

\* C36: the events emitted for one name alternate between "new" and "del",
\* and the first of them is "del" when the seeding scan returned the name
\* and "new" when it did not.
C36_EventsAlternate ==
    \A n \in AllNames :
        LET e == EventsOf(n) IN
        /\ e # <<>> => e[1].event = (IF n \in seeded THEN "del" ELSE "new")
        /\ \A i \in 1..(Len(e) - 1) : e[i].event # e[i + 1].event

\* C36's case: a name of the seeding scan got "del" and then "new", and a
\* name that was not in it got "new" and then "del", with a send that failed
C36_Witness ==
    /\ \E n \in seeded :
          Len(EventsOf(n)) = 2 /\ EventsOf(n)[2].event = "new"
    /\ \E n \in AllNames \ seeded :
          Len(EventsOf(n)) = 2 /\ EventsOf(n)[2].event = "del"
    /\ Len(out_queue) < Len(emitted)

\* the primary entry was created from a folder whose info.csv had a value to
\* index
CreatedWithMetadata(entry) ==
    \E i \in 1..Len(created) :
        /\ created[i].folder_id = entry.folder_id
        /\ created[i].folder_name = entry.folder_name
        /\ HadDescriptor(created[i])
        /\ \E t \in SearchTypes : FieldOf(created[i].folder.csv.fields, t) # <<>>

\* C31: the index a search or a file/descriptor read has just looked at holds
\* no primary entry whose secondary buckets are still to be updated and none
\* whose id is the value of total_folders.
C31_ReadersSeeWholeOperations ==
    ret.op # "none" =>
        \A i \in 1..Len(file_manager.folders_by_id) :
            LET entry == file_manager.folders_by_id[i] IN
            /\ CreatedWithMetadata(entry) => RefOf(entry) \in SecondaryRefs(file_manager)
            /\ entry.key # file_manager.total_folders

\* C32: users_database.cash and the rows of table users hold the same flag
\* for every user.
C32_CacheEqualsDatabase ==
    \A u \in Users : cash[u] = db_rows[u]

\* C33: the ban starts only with the message that makes the attempts
\* MAX_ATTEMPTS_PASSPHRASE in the password dialogue, and the handler of that
\* message ends with flag 2 for its user; a user without a flag gets one
\* only as flag 1 from process_password; /start during the password dialogue
\* leaves the counter of attempts as it is.
C33_AttemptsLimited ==
    [][\A u \in Users :
          /\ ("L81" \notin in_flight[u] /\ "L81" \in in_flight'[u])
                => /\ fsm_state[u] = "waiting_for_password"
                   /\ fsm_attempts[u] = MAX_ATTEMPTS_PASSPHRASE - 1
                   /\ handled' = Handled(u, "process_password")
          /\ ("L81" \in in_flight[u] /\ "L81" \notin in_flight'[u])
                => cash'[u] = 2
          /\ (cash[u] = NoFlag /\ cash'[u] # NoFlag /\ "L81" \notin in_flight[u])
                => /\ cash'[u] = 1
                   /\ handled' = Handled(u, "process_password")
          /\ (handled' = Handled(u, "cmd_start")
                /\ fsm_state[u] = "waiting_for_password")
                => /\ fsm_attempts'[u] = fsm_attempts[u]
                   /\ fsm_state'[u] = "waiting_for_password"]_vars

\* C34: a coroutine sends a list of folders or the content of a folder only
\* to a user whose flag is 1.
C34_OnlyAuthenticatedGetData ==
    sent # "none" => cash[handled.user] = 1

====
